---- MODULE Spec2Model ----
(***************************************************************************)
(* Model of vbchart.VerticalBarChart and vbchart.AnsiHelp                  *)
(* (src/vbchart/__init__.py).                                              *)
(*                                                                         *)
(* A Python str is a sequence of one-character strings; the escape         *)
(* character '\x1b' is the element ESC and a non-ASCII character is the    *)
(* element "U+<code point>" (U+258C is LEFT HALF BLOCK).  An Optional[...] *)
(* field is the record None or Some(v).  A float is a record: a finite     *)
(* value is the fraction n/d, and inf, -inf and nan are values of their    *)
(* own.                                                                    *)
(***************************************************************************)
EXTENDS Integers, Sequences, FiniteSets, TLC

VARIABLES chart, args, ret, prev

vars == <<chart, args, ret, prev>>

(* ---------------------------------------------------------------------- *)
(* Bounds of the model                                                     *)
(* ---------------------------------------------------------------------- *)
MaxText == 5
MaxTruncCols == 3
MaxStepValue == 10
MaxStepDenom == 8
MaxVals == 3
GridMax == 21

(* ---------------------------------------------------------------------- *)
(* Basic values                                                            *)
(* ---------------------------------------------------------------------- *)
ESC == "ESC"

None == [isNone |-> TRUE]

Some(v) == [isNone |-> FALSE, v |-> v]

Min(a, b) == IF a < b THEN a ELSE b

Max(a, b) == IF a > b THEN a ELSE b

Rep(c, n) == [k \in 1..n |-> c]

RECURSIVE Join(_)
Join(parts) == IF parts = <<>> THEN <<>> ELSE Head(parts) \o Join(Tail(parts))

NoRet == [kind |-> "none"]

(* ---------------------------------------------------------------------- *)
(* AnsiHelp                                                                *)
(* ---------------------------------------------------------------------- *)
RECURSIVE FindM(_, _)
FindM(s, j) == IF j <= Len(s) /\ s[j] # "m" THEN FindM(s, j + 1) ELSE j

(* TruncLoop that copies a sequence without its final 'm' instead of dropping it *)
RECURSIVE TruncLoopPartial(_, _, _, _, _)
TruncLoopPartial(s, max_cols, i, vis, out) ==
    IF ~(i <= Len(s) /\ vis < max_cols) THEN out
    ELSE IF s[i] = ESC /\ i + 1 <= Len(s) /\ s[i + 1] = "["
         THEN LET j == FindM(s, i + 2) IN
              IF j <= Len(s)
              THEN TruncLoopPartial(s, max_cols, j + 1, vis, out \o SubSeq(s, i, j))
              ELSE out \o SubSeq(s, i, Len(s))
         ELSE TruncLoopPartial(s, max_cols, i + 1, vis + 1, Append(out, s[i]))

RECURSIVE TruncLoop(_, _, _, _, _)
TruncLoop(s, max_cols, i, vis, out) ==
    IF ~(i <= Len(s) /\ vis < max_cols) THEN out
    ELSE IF s[i] = ESC /\ i + 1 <= Len(s) /\ s[i + 1] = "["
         THEN LET j == FindM(s, i + 2) IN
              IF j <= Len(s)
              THEN TruncLoop(s, max_cols, j + 1, vis, out \o SubSeq(s, i, j))
              ELSE out
         ELSE TruncLoop(s, max_cols, i + 1, vis + 1, Append(out, s[i]))

truncate_visible(s, max_cols) ==
    IF max_cols <= 0 THEN <<>> ELSE TruncLoop(s, max_cols, 1, 0, <<>>)

_sgr_wrap(sgr, text) ==
    IF sgr.isNone \/ sgr.v = <<>> THEN text
    ELSE <<ESC, "[">> \o sgr.v \o <<"m">> \o text \o <<ESC, "[", "0", "m">>

RECURSIVE VisLoop(_, _, _)
VisLoop(s, i, out) ==
    IF ~(i <= Len(s)) THEN out
    ELSE IF s[i] = ESC /\ i + 1 <= Len(s) /\ s[i + 1] = "["
         THEN VisLoop(s, FindM(s, i + 2) + 1, out)
         ELSE VisLoop(s, i + 1, Append(out, s[i]))

_visible_len(s) == Len(VisLoop(s, 1, <<>>))

(* ---------------------------------------------------------------------- *)
(* Python floats: a finite value is the fraction n/d (d > 0)               *)
(* ---------------------------------------------------------------------- *)
Fin(n) == [k |-> "fin", n |-> n, d |-> 1]

Frac(n, d) == [k |-> "fin", n |-> n, d |-> d]

Inf(sgn) == [k |-> "inf", n |-> sgn, d |-> 1]

NaN == [k |-> "nan", n |-> 0, d |-> 1]

Sign(n) == IF n > 0 THEN 1 ELSE IF n < 0 THEN 0 - 1 ELSE 0

Abs(n) == IF n < 0 THEN 0 - n ELSE n

(* a < b on floats: every comparison with nan is false *)
FLt(a, b) ==
    IF a.k = "nan" \/ b.k = "nan" THEN FALSE
    ELSE IF a.k = "inf" THEN a.n < 0 /\ ~(b.k = "inf" /\ b.n < 0)
    ELSE IF b.k = "inf" THEN b.n > 0
    ELSE a.n * b.d < b.n * a.d

FLe(a, b) == a.k # "nan" /\ b.k # "nan" /\ ~FLt(b, a)

(* min(a, b) and max(a, b) of Python: the first argument unless the second *)
(* compares strictly smaller (larger)                                      *)
FMinPy(a, b) == IF FLt(b, a) THEN b ELSE a

FMaxPy(a, b) == IF FLt(a, b) THEN b ELSE a

(* a / b for a divisor that is not zero *)
FDiv(a, b) ==
    IF a.k = "nan" \/ b.k = "nan" THEN NaN
    ELSE IF a.k = "inf" THEN (IF b.k = "inf" THEN NaN ELSE Inf(a.n * Sign(b.n)))
    ELSE IF b.k = "inf" THEN Fin(0)
    ELSE Frac(a.n * b.d * Sign(b.n), a.d * Abs(b.n))

(* a * m for a finite non-zero m *)
FMul(a, m) ==
    IF a.k = "nan" THEN NaN
    ELSE IF a.k = "inf" THEN Inf(a.n * Sign(m))
    ELSE Frac(a.n * m, a.d)

(* round(): round-half-to-even of n/d, d > 0 *)
RoundHalfEven(n, d) ==
    LET q == n \div d
        r == n - q * d
    IN  IF 2 * r < d THEN q
        ELSE IF 2 * r > d THEN q + 1
        ELSE IF q % 2 = 0 THEN q ELSE q + 1

Returned(v) == [ok |-> TRUE, v |-> v, exc |-> "none"]

Raised(exc) == [ok |-> FALSE, v |-> 0, exc |-> exc]

(* int(round(x)) *)
IntRound(x) ==
    IF x.k = "inf" THEN Raised("OverflowError")
    ELSE IF x.k = "nan" THEN Raised("ValueError")
    ELSE Returned(RoundHalfEven(x.n, x.d))

(* ---------------------------------------------------------------------- *)
(* VerticalBarChart: internals                                             *)
(* ---------------------------------------------------------------------- *)
_clamp_int(x, lo, hi) == IF x < lo THEN lo ELSE IF x > hi THEN hi ELSE x

_to_signed_steps_5pct(clamp_to_100, value, denom) ==
    IF FLe(denom, Fin(0)) THEN Returned(0)
    ELSE LET pct0 == FMul(FDiv(value, denom), 100)
             pct == IF clamp_to_100
                    THEN FMaxPy(Fin(0 - 100), FMinPy(Fin(100), pct0))
                    ELSE pct0
             steps == IntRound(FDiv(pct, Fin(5)))
         IN  IF steps.ok THEN Returned(_clamp_int(steps.v, 0 - 20, 20))
             ELSE steps

PosTable ==
    [p \in (0..2) \X (0..2) |->
        CASE p = <<0, 0>> -> " "
          [] p = <<0, 1>> -> "U+2597"
          [] p = <<0, 2>> -> "U+2590"
          [] p = <<1, 0>> -> "U+2596"
          [] p = <<1, 1>> -> "U+2584"
          [] p = <<1, 2>> -> "U+259F"
          [] p = <<2, 0>> -> "U+258C"
          [] p = <<2, 1>> -> "U+2599"
          [] p = <<2, 2>> -> "U+2588"]

NegTable ==
    [p \in (0..2) \X (0..2) |->
        CASE p = <<0, 0>> -> " "
          [] p = <<0, 1>> -> "U+259D"
          [] p = <<0, 2>> -> "U+2590"
          [] p = <<1, 0>> -> "U+2598"
          [] p = <<1, 1>> -> "U+2580"
          [] p = <<1, 2>> -> "U+259C"
          [] p = <<2, 0>> -> "U+258C"
          [] p = <<2, 1>> -> "U+259B"
          [] p = <<2, 2>> -> "U+2588"]

(* the ASCII branch shared by _glyph_pos and _glyph_neg *)
AsciiGlyph(l_steps, r_steps) ==
    LET l_on == l_steps > 0
        r_on == r_steps > 0
    IN  IF l_on /\ r_on THEN "#"
        ELSE IF l_on THEN "L"
        ELSE IF r_on THEN "R"
        ELSE " "

(* table[(l_steps, r_steps)] raises KeyError for a key the dict lacks *)
_glyph_pos(unicode, l_steps, r_steps) ==
    IF ~unicode THEN AsciiGlyph(l_steps, r_steps)
    ELSE IF <<l_steps, r_steps>> \in DOMAIN PosTable
         THEN PosTable[<<l_steps, r_steps>>]
         ELSE "KeyError"

(* _glyph_neg that looks the key up in the bottom-filled table *)
_glyph_negBottomFilled(unicode, l_steps, r_steps) ==
    IF ~unicode THEN AsciiGlyph(l_steps, r_steps)
    ELSE IF <<l_steps, r_steps>> \in DOMAIN PosTable
         THEN PosTable[<<l_steps, r_steps>>]
         ELSE "KeyError"

_glyph_neg(unicode, l_steps, r_steps) ==
    IF ~unicode THEN AsciiGlyph(l_steps, r_steps)
    ELSE IF <<l_steps, r_steps>> \in DOMAIN NegTable
         THEN NegTable[<<l_steps, r_steps>>]
         ELSE "KeyError"

(* ---------------------------------------------------------------------- *)
(* Number formatting                                                       *)
(* ---------------------------------------------------------------------- *)
Digit(n) == CASE n = 0 -> "0" [] n = 1 -> "1" [] n = 2 -> "2" [] n = 3 -> "3"
              [] n = 4 -> "4" [] n = 5 -> "5" [] n = 6 -> "6" [] n = 7 -> "7"
              [] n = 8 -> "8" [] n = 9 -> "9"

RECURSIVE Digits(_)
Digits(n) == IF n < 10 THEN <<Digit(n)>> ELSE Append(Digits(n \div 10), Digit(n % 10))

(* str.rjust(w) *)
rjust(s, w) == IF Len(s) >= w THEN s ELSE Rep(" ", w - Len(s)) \o s

(* f'{n:>3}' and '%<w>d' % n, '%+<w>d' % n for an integer n *)
FormatInt(n, plus, w) ==
    rjust((IF n < 0 THEN <<"-">> ELSE IF plus THEN <<"+">> ELSE <<>>) \o Digits(Abs(n)), w)

(* int(x) of a finite float: truncation toward zero *)
TruncToInt(x) == Sign(x.n) * (Abs(x.n) \div x.d)

(* fmt % x for a template  pre %[+][w]d post  (the family of '%+d ') *)
FmtTemplate(pre, plus, w, post) == [pre |-> pre, plus |-> plus, w |-> w, post |-> post]

FormatPct(fmt, x) == fmt.pre \o FormatInt(TruncToInt(x), fmt.plus, fmt.w) \o fmt.post

_default_forced_fmt(c) ==
    IF ~c.y_label_fmt.isNone THEN c.y_label_fmt.v ELSE FmtTemplate(<<>>, TRUE, 0, <<" ">>)

_render_y_label(c, kind, row, denom, forced) ==
    IF ~forced
    THEN IF kind = "zero" THEN <<" ", " ", "0", "%", " ">>
         ELSE LET sign == IF kind = "pos" THEN 1 ELSE 0 - 1
              IN  FormatInt(sign * row * 10, FALSE, 3) \o <<"%", " ">>
    ELSE LET fmt == _default_forced_fmt(c) IN
         IF kind = "zero" THEN FormatPct(fmt, Fin(0))
         ELSE LET sign == IF kind = "pos" THEN 1 ELSE 0 - 1
                  v == Frac(sign * denom * row, 10)
              IN  FormatPct(fmt, v)

(* ---------------------------------------------------------------------- *)
(* Style pipeline                                                          *)
(* ---------------------------------------------------------------------- *)
(* The caller's colour callbacks: pure functions of the keyword arguments. *)
(* "by_row_kind" colours by row kind; "by_glyph" returns None for a blank  *)
(* glyph and an SGR string otherwise.                                      *)
InvokeCallback(cb, ctx) ==
    IF cb = "by_row_kind"
    THEN IF ctx.row_kind = "pos" THEN Some(<<"3", "2">>) ELSE Some(<<"3", "1">>)
    ELSE IF ctx.glyph = " " THEN None ELSE Some(<<"1", ";", "7">>)

NoCall == [called |-> FALSE]

_style_cell(c, glyph, value_left, value_right, denom, row_kind, row) ==
    IF ~c._value_color_cb.isNone
    THEN LET ctx == [value_left |-> value_left,
                     value_right |-> value_right,
                     pct_left |-> IF denom # 0 THEN Frac(value_left, denom) ELSE Fin(0),
                     pct_right |-> IF denom # 0 THEN Frac(value_right, denom) ELSE Fin(0),
                     row_kind |-> row_kind,
                     row |-> row,
                     glyph |-> glyph]
             sgr == InvokeCallback(c._value_color_cb.v, ctx)
         IN  [text |-> _sgr_wrap(sgr, <<glyph>>),
              call |-> [called |-> TRUE, ctx |-> ctx, sgr |-> sgr]]
    ELSE [text |-> _sgr_wrap(c._bar_sgr, <<glyph>>), call |-> NoCall]

_border_chars(c) ==
    IF c._border_style_name = "double"
    THEN [tl |-> "U+2554", tr |-> "U+2557", bl |-> "U+255A", br |-> "U+255D", h |-> "U+2550", v |-> "U+2551"]
    ELSE IF c._border_style_name = "ascii"
    THEN [tl |-> "+", tr |-> "+", bl |-> "+", br |-> "+", h |-> "-", v |-> "|"]
    ELSE [tl |-> "U+250C", tr |-> "U+2510", bl |-> "U+2514", br |-> "U+2518", h |-> "U+2500", v |-> "U+2502"]

SeqMax(f) == CHOOSE m \in {f[k] : k \in DOMAIN f} : \A k \in DOMAIN f : f[k] <= m

(* _add_border that pads by len(ln) instead of the visible length *)
_add_borderRawPad(c, lines) ==
    IF ~c._border_enabled \/ lines = <<>> THEN lines
    ELSE LET cs == _border_chars(c)
             content_w == SeqMax([k \in DOMAIN lines |-> _visible_len(lines[k])])
             top_plain == <<cs.tl>> \o Rep(cs.h, content_w + 2) \o <<cs.tr>>
             bot_plain == <<cs.bl>> \o Rep(cs.h, content_w + 2) \o <<cs.br>>
             left_v == _sgr_wrap(c._border_sgr, <<cs.v>>)
             right_v == _sgr_wrap(c._border_sgr, <<cs.v>>)
             framed == [k \in DOMAIN lines |->
                          LET pad == Max(0, content_w - Len(lines[k]))
                          IN  left_v \o <<" ">> \o lines[k] \o Rep(" ", pad)
                                     \o <<" ">> \o right_v]
         IN  <<_sgr_wrap(c._border_sgr, top_plain)>> \o framed
                 \o <<_sgr_wrap(c._border_sgr, bot_plain)>>

_add_border(c, lines) ==
    IF ~c._border_enabled \/ lines = <<>> THEN lines
    ELSE LET cs == _border_chars(c)
             content_w == SeqMax([k \in DOMAIN lines |-> _visible_len(lines[k])])
             top_plain == <<cs.tl>> \o Rep(cs.h, content_w + 2) \o <<cs.tr>>
             bot_plain == <<cs.bl>> \o Rep(cs.h, content_w + 2) \o <<cs.br>>
             left_v == _sgr_wrap(c._border_sgr, <<cs.v>>)
             right_v == _sgr_wrap(c._border_sgr, <<cs.v>>)
             framed == [k \in DOMAIN lines |->
                          LET pad == content_w - _visible_len(lines[k])
                          IN  left_v \o <<" ">> \o lines[k] \o Rep(" ", pad)
                                     \o <<" ">> \o right_v]
         IN  <<_sgr_wrap(c._border_sgr, top_plain)>> \o framed
                 \o <<_sgr_wrap(c._border_sgr, bot_plain)>>

(* ---------------------------------------------------------------------- *)
(* Rendering                                                               *)
(* ---------------------------------------------------------------------- *)
(* get_terminal_size(fallback=(80, 24)).columns where no terminal is attached *)
TerminalColumns == 80

_term_cols(c) ==
    IF ~c.width.isNone THEN Max(20, c.width.v) ELSE Max(20, TerminalColumns)

Truthy(opt) == ~opt.isNone /\ opt.v # <<>>

(* PosBands counting one step per row below instead of two *)
PosBandsOneStepPerRow(ls, rs, row) ==
    LET steps_below == row - 1
        lmag == IF ls > 0 THEN ls ELSE 0
        rmag == IF rs > 0 THEN rs ELSE 0
    IN  [l_in_row |-> _clamp_int(lmag - steps_below, 0, 2),
         r_in_row |-> _clamp_int(rmag - steps_below, 0, 2)]

(* bands of one cell of positive row `row` *)
PosBands(ls, rs, row) ==
    LET steps_below == (row - 1) * 2
        lmag == IF ls > 0 THEN ls ELSE 0
        rmag == IF rs > 0 THEN rs ELSE 0
    IN  [l_in_row |-> _clamp_int(lmag - steps_below, 0, 2),
         r_in_row |-> _clamp_int(rmag - steps_below, 0, 2)]

(* NegBands with the two sides exchanged *)
NegBandsSwapped(ls, rs, row) ==
    LET steps_below == (row - 1) * 2
        lmag == IF ls < 0 THEN 0 - ls ELSE 0
        rmag == IF rs < 0 THEN 0 - rs ELSE 0
    IN  [l_in_row |-> _clamp_int(rmag - steps_below, 0, 2),
         r_in_row |-> _clamp_int(lmag - steps_below, 0, 2)]

(* bands of one cell of negative row `row` *)
NegBands(ls, rs, row) ==
    LET steps_below == (row - 1) * 2
        lmag == IF ls < 0 THEN 0 - ls ELSE 0
        rmag == IF rs < 0 THEN 0 - rs ELSE 0
    IN  [l_in_row |-> _clamp_int(lmag - steps_below, 0, 2),
         r_in_row |-> _clamp_int(rmag - steps_below, 0, 2)]

(* the zip(...) loop of one row: glyph and styled text of every column *)
RowCells(c, row_kind, row, left_vals, right_vals, left_steps, right_steps, denom) ==
    [k \in DOMAIN left_vals |->
        LET b == IF row_kind = "pos" THEN PosBands(left_steps[k], right_steps[k], row)
                 ELSE NegBands(left_steps[k], right_steps[k], row)
            glyph == IF row_kind = "pos" THEN _glyph_pos(c.unicode, b.l_in_row, b.r_in_row)
                     ELSE _glyph_neg(c.unicode, b.l_in_row, b.r_in_row)
            st == _style_cell(c, glyph, left_vals[k], right_vals[k], denom, row_kind, row)
        IN  [l_in_row |-> b.l_in_row, r_in_row |-> b.r_in_row, glyph |-> glyph,
             text |-> st.text, call |-> st.call]]

LabelPart(c, kind, row, denom, forced, y_w) ==
    IF c.show_y_axis
    THEN _sgr_wrap(c._label_sgr, rjust(_render_y_label(c, kind, row, denom, forced), y_w))
    ELSE <<>>

(* one positive or negative row: label, cells, truncation to cols *)
BarRow(c, row_kind, row, left_vals, right_vals, left_steps, right_steps, denom, forced, y_w, cols) ==
    LET cells == RowCells(c, row_kind, row, left_vals, right_vals,
                          left_steps, right_steps, denom)
        parts == LabelPart(c, row_kind, row, denom, forced, y_w)
                     \o Join([k \in DOMAIN cells |-> cells[k].text])
    IN  [kind |-> row_kind, row |-> row, cells |-> cells,
         line |-> truncate_visible(parts, cols)]

RuleChar(c) == IF c.unicode THEN "U+2500" ELSE "-"

(* the title line and the rule under it *)
TitleLines(c, cols) ==
    IF Truthy(c.title)
    THEN <<[kind |-> "title", row |-> 0, cells |-> <<>>,
            line |-> _sgr_wrap(c._label_sgr, truncate_visible(c.title.v, cols))]>>
         \o (IF c.show_rule
             THEN <<[kind |-> "rule", row |-> 0, cells |-> <<>>,
                     line |-> _sgr_wrap(c._axis_sgr,
                                 Rep(RuleChar(c), Min(cols, Max(10, Len(c.title.v)))))]>>
             ELSE <<>>)
    ELSE <<>>

(* the 0 axis above the negative rows *)
ZeroAxisLine(c, denom, forced, y_w, cols, ncols) ==
    [kind |-> "zero", row |-> 0, cells |-> <<>>,
     line |-> truncate_visible(
                  LabelPart(c, "zero", 0, denom, forced, y_w)
                      \o _sgr_wrap(c._axis_sgr, Rep(RuleChar(c), ncols)), cols)]

(* the baseline under a chart without negative rows *)
BaselineLine(c, y_w, cols, ncols) ==
    [kind |-> "baseline", row |-> 0, cells |-> <<>>,
     line |-> truncate_visible(
                  (IF c.show_y_axis THEN Rep(" ", y_w) ELSE <<>>)
                      \o _sgr_wrap(c._axis_sgr, Rep(RuleChar(c), ncols)), cols)]

(* AssembleLines that appends the baseline under the negative rows as well *)
AssembleLinesBaselineAlways(title_lines, pos_rows, zero_line, neg_rows_lines, baseline, neg_rows) ==
    title_lines \o pos_rows
        \o (IF neg_rows > 0 THEN <<zero_line>> \o neg_rows_lines ELSE <<>>)
        \o <<baseline>>

(* the order in which __str__ appends to `lines` *)
AssembleLines(title_lines, pos_rows, zero_line, neg_rows_lines, baseline, neg_rows) ==
    title_lines \o pos_rows
        \o (IF neg_rows > 0 THEN <<zero_line>> \o neg_rows_lines ELSE <<baseline>>)

(* max(abs(v) for v in vals) *)
MaxAbs(vals) == SeqMax([k \in DOMAIN vals |-> Abs(vals[k])])

(* ResolveDenom that keeps a non-positive max_value as the denominator *)
ResolveDenomNoFloor(c, vals) ==
    IF ~c.max_value.isNone THEN c.max_value.v
    ELSE IF MaxAbs(vals) <= 0 THEN 1 ELSE MaxAbs(vals)

(* the scale denominator of a render *)
ResolveDenom(c, vals) ==
    LET denom == IF ~c.max_value.isNone THEN c.max_value.v ELSE MaxAbs(vals)
    IN  IF denom <= 0 THEN 1 ELSE denom

(* NegRowCount with the half row rounded down *)
NegRowCountFloor(steps) ==
    LET max_neg_steps ==
            SeqMax([k \in DOMAIN steps |-> IF steps[k] < 0 THEN 0 - steps[k] ELSE 0])
    IN  max_neg_steps \div 2

(* minimal negative rows: ceil(max_neg_steps / 2.0) *)
NegRowCount(steps) ==
    LET max_neg_steps ==
            SeqMax([k \in DOMAIN steps |-> IF steps[k] < 0 THEN 0 - steps[k] ELSE 0])
    IN  (max_neg_steps + 1) \div 2

NoData == <<"(", "n", "o", " ", "d", "a", "t", "a", ")">>

(* __str__: the returned text as its '\n'-separated lines, with the locals *)
(* of the call that the properties refer to                                *)
Render(c) ==
    LET vals == c.values.items IN
    IF vals = <<>>
    THEN [kind |-> "render", nodata |-> TRUE, text |-> <<NoData>>, content |-> <<>>,
          denom |-> 0, neg_rows |-> 0, y_w |-> 0,
          cols |-> 0, max_cols |-> 0, left_steps_total |-> <<>>,
          right_steps_total |-> <<>>]
    ELSE
    LET cols == _term_cols(c)
        denom == ResolveDenom(c, vals)
        npairs == (Len(vals) + 1) \div 2
        left_all == [k \in 1..npairs |-> vals[2 * k - 1]]
        right_all == [k \in 1..npairs |-> IF 2 * k <= Len(vals) THEN vals[2 * k] ELSE 0]
        left_steps_total ==
            [k \in 1..npairs |->
                _to_signed_steps_5pct(c.clamp_to_100, Fin(left_all[k]), Fin(denom)).v]
        right_steps_total ==
            [k \in 1..npairs |->
                _to_signed_steps_5pct(c.clamp_to_100, Fin(right_all[k]), Fin(denom)).v]
        neg_rows == NegRowCount(left_steps_total \o right_steps_total)
        forced_labels == ~c.max_value.isNone \/ ~c.y_label_fmt.isNone
        labels ==
            [k \in 1..10 |-> _render_y_label(c, "pos", 11 - k, denom, forced_labels)]
            \o (IF neg_rows > 0
                THEN <<_render_y_label(c, "zero", 0, denom, forced_labels)>>
                     \o [r \in 1..neg_rows |->
                            _render_y_label(c, "neg", r, denom, forced_labels)]
                ELSE <<>>)
        y_w == IF c.show_y_axis THEN SeqMax([k \in DOMAIN labels |-> Len(labels[k])]) ELSE 0
        usable == cols - y_w
        max_cols == Max(1, usable)
        n == Min(npairs, max_cols)
        left_vals == SubSeq(left_all, 1, n)
        right_vals == SubSeq(right_all, 1, n)
        left_steps == SubSeq(left_steps_total, 1, n)
        right_steps == SubSeq(right_steps_total, 1, n)
        forced == forced_labels
        content ==
            AssembleLines(
                TitleLines(c, cols),
                [k \in 1..10 |->
                    BarRow(c, "pos", 11 - k, left_vals, right_vals, left_steps,
                           right_steps, denom, forced, y_w, cols)],
                ZeroAxisLine(c, denom, forced, y_w, cols, Len(left_vals)),
                [r \in 1..neg_rows |->
                    BarRow(c, "neg", r, left_vals, right_vals, left_steps,
                           right_steps, denom, forced, y_w, cols)],
                BaselineLine(c, y_w, cols, Len(left_vals)),
                neg_rows)
    IN  [kind |-> "render", nodata |-> FALSE,
         text |-> _add_border(c, [k \in DOMAIN content |-> content[k].line]),
         content |-> content, denom |-> denom,
         neg_rows |-> neg_rows, y_w |-> y_w, cols |-> cols, max_cols |-> max_cols,
         left_steps_total |-> left_steps_total,
         right_steps_total |-> right_steps_total]

(* ---------------------------------------------------------------------- *)
(* The chart object and its operations                                     *)
(* ---------------------------------------------------------------------- *)
(* a list can be iterated again; an iterator or generator yields its items *)
(* once                                                                    *)
ListOf(items) == [kind |-> "list", items |-> items]

IterOf(items) == [kind |-> "iter", items |-> items]

(* VerticalBarChart(values, title, width=..., ...): the dataclass fields,  *)
(* the styling state at its defaults                                       *)
NewChart(values, title, width, max_value, clamp_to_100, show_y_axis, show_rule, unicode, y_label_fmt) ==
    [values |-> values, title |-> title, width |-> width, max_value |-> max_value,
     clamp_to_100 |-> clamp_to_100, show_y_axis |-> show_y_axis,
     show_rule |-> show_rule, unicode |-> unicode, y_label_fmt |-> y_label_fmt,
     _border_enabled |-> FALSE, _border_sgr |-> None, _border_style_name |-> "single",
     _label_sgr |-> None, _axis_sgr |-> None, _bar_sgr |-> None,
     _value_color_cb |-> None]

Self == [kind |-> "self"]

(* for v in self.values: an iterator is left exhausted *)
Consumed(values) == IF values.kind = "iter" THEN IterOf(<<>>) ELSE values

(* str(chart) *)
Str ==
    /\ ret' = Render(chart)
    /\ prev' = ret
    /\ chart' = [chart EXCEPT !.values = Consumed(@)]
    /\ UNCHANGED args

SetBorder(enabled, sgr, charset) ==
    /\ chart' = [chart EXCEPT !._border_enabled = enabled,
                              !._border_sgr = sgr,
                              !._border_style_name = charset]
    /\ ret' = Self
    /\ prev' = NoRet
    /\ UNCHANGED args

SetLabelSgr(sgr) ==
    /\ chart' = [chart EXCEPT !._label_sgr = sgr]
    /\ ret' = Self
    /\ prev' = NoRet
    /\ UNCHANGED args

SetAxisSgr(sgr) ==
    /\ chart' = [chart EXCEPT !._axis_sgr = sgr]
    /\ ret' = Self
    /\ prev' = NoRet
    /\ UNCHANGED args

SetBarSgr(sgr) ==
    /\ chart' = [chart EXCEPT !._bar_sgr = sgr]
    /\ ret' = Self
    /\ prev' = NoRet
    /\ UNCHANGED args

SetValueColorCallback(cb) ==
    /\ chart' = [chart EXCEPT !._value_color_cb = cb]
    /\ ret' = Self
    /\ prev' = NoRet
    /\ UNCHANGED args

(* ---------------------------------------------------------------------- *)
(* Inputs                                                                  *)
(* ---------------------------------------------------------------------- *)
WideFmt == FmtTemplate(<<>>, TRUE, 20, <<" ">>)

ChartValues ==
    {ListOf(<<>>), ListOf(<<100, 0 - 100>>), ListOf(<<50, 0 - 83, 20>>),
     IterOf(<<30, 10>>)}

Titles ==
    {None,
     Some(<<"a", ESC, "[", "1", "m">> \o Rep("b", 21) \o <<ESC, "[", "0", "m">>),
     Some(<<"Q", ESC, "[", "3">>)}

(* width, y_label_fmt, show_y_axis *)
Layouts ==
    {<<Some(20), Some(WideFmt), TRUE>>, <<Some(80), None, TRUE>>, <<None, None, FALSE>>}

BorderArgs ==
    {<<FALSE, None, "single">>, <<TRUE, None, "ascii">>,
     <<TRUE, Some(<<"1", ";", "3", "4">>), "double">>}

LabelSgrs == {None, Some(<<"1">>)}

AxisSgrs == {None, Some(<<"2">>)}

BarSgrs == {None, Some(<<"3", "3">>)}

Callbacks == {None, Some("by_row_kind"), Some("by_glyph")}

NoArgs == [fn |-> "none"]

Init ==
    /\ \E values \in ChartValues, title \in Titles, lay \in Layouts,
          show_rule \in BOOLEAN :
          chart = NewChart(values, title, lay[1], None, TRUE, lay[3], show_rule,
                           TRUE, lay[2])
    /\ args = NoArgs
    /\ ret = NoRet
    /\ prev = NoRet

Next ==
    \/ Str
    \/ \E b \in BorderArgs : SetBorder(b[1], b[2], b[3])
    \/ \E sgr \in LabelSgrs : SetLabelSgr(sgr)
    \/ \E sgr \in AxisSgrs : SetAxisSgr(sgr)
    \/ \E sgr \in BarSgrs : SetBarSgr(sgr)
    \/ \E cb \in Callbacks : SetValueColorCallback(cb)

Spec == Init /\ [][Next]_vars

(* ---------------------------------------------------------------------- *)
(* The helper functions called on their own                                *)
(* ---------------------------------------------------------------------- *)
EmptyChart == NewChart(ListOf(<<>>), None, None, None, TRUE, TRUE, TRUE, TRUE, None)

StepValues ==
    {Fin(v) : v \in (0 - MaxStepValue)..MaxStepValue} \cup {Inf(1), Inf(0 - 1), NaN}

StepDenoms == {Fin(d) : d \in (0 - 1)..MaxStepDenom} \cup {Inf(1)}

InitSteps ==
    /\ \E clamp_to_100 \in BOOLEAN :
          chart = [EmptyChart EXCEPT !.clamp_to_100 = clamp_to_100]
    /\ \E value \in StepValues, denom \in StepDenoms :
          args = [fn |-> "_to_signed_steps_5pct", value |-> value, denom |-> denom]
    /\ ret = NoRet
    /\ prev = NoRet

(* chart._to_signed_steps_5pct(value, denom) *)
CallToSignedSteps ==
    /\ args.fn = "_to_signed_steps_5pct"
    /\ ret.kind = "none"
    /\ ret' = [kind |-> "steps",
               res |-> _to_signed_steps_5pct(chart.clamp_to_100, args.value, args.denom)]
    /\ UNCHANGED <<chart, args, prev>>

NextSteps == CallToSignedSteps

SpecSteps == InitSteps /\ [][NextSteps]_vars

TextAlphabet == {ESC, "[", "m", "a"}

Texts == UNION {[1..n -> TextAlphabet] : n \in 0..MaxText}

InitTruncate ==
    /\ chart = EmptyChart
    /\ \E s \in Texts, max_cols \in (0 - 1)..MaxTruncCols :
          args = [fn |-> "truncate_visible", s |-> s, max_cols |-> max_cols]
    /\ ret = NoRet
    /\ prev = NoRet

(* AnsiHelp.truncate_visible(s, max_cols) *)
CallTruncateVisible ==
    /\ args.fn = "truncate_visible"
    /\ ret.kind = "none"
    /\ ret' = [kind |-> "truncated", out |-> truncate_visible(args.s, args.max_cols)]
    /\ UNCHANGED <<chart, args, prev>>

NextTruncate == CallTruncateVisible

SpecTruncate == InitTruncate /\ [][NextTruncate]_vars

(* ---------------------------------------------------------------------- *)
(* Charts over generated data, rendered without further styling            *)
(* ---------------------------------------------------------------------- *)
DataValues == {0 - 100, 0 - 83, 0 - 3, 0, 50}

DataSeqs == UNION {[1..n -> DataValues] : n \in 0..MaxVals}

DataMaxValues == {None, Some(0 - 5), Some(0), Some(100)}

InitData ==
    /\ \E items \in DataSeqs, max_value \in DataMaxValues, clamp_to_100 \in BOOLEAN,
          y_label_fmt \in {None, Some(WideFmt)} :
          chart = NewChart(ListOf(items), None, Some(20), max_value, clamp_to_100,
                           TRUE, TRUE, TRUE, y_label_fmt)
    /\ args = NoArgs
    /\ ret = NoRet
    /\ prev = NoRet

NextData == Str

SpecData == InitData /\ [][NextData]_vars

(* one column whose two values are the steps themselves (20 steps of 5%) *)
InitGrid ==
    /\ \E a \in (0 - GridMax)..GridMax, b \in (0 - GridMax)..GridMax,
          unicode \in BOOLEAN :
          chart = NewChart(ListOf(<<a, b>>), None, Some(20), Some(20), TRUE,
                           TRUE, TRUE, unicode, None)
    /\ args = NoArgs
    /\ ret = NoRet
    /\ prev = NoRet

NextGrid == Str

SpecGrid == InitGrid /\ [][NextGrid]_vars

(* ---------------------------------------------------------------------- *)
(* Properties                                                              *)
(* ---------------------------------------------------------------------- *)

(* C1: for every input value and every denominator _to_signed_steps_5pct   *)
(* returns an integer step in [-20, 20]; with clamping enabled and a       *)
(* positive denominator, value == denom gives 20 and value == -denom gives *)
(* -20.  Violated: with clamp_to_100 off an infinite or nan percentage     *)
(* makes int(round(...)) raise instead of returning a step.                *)
C1_StepInRange ==
    ret.kind = "steps" =>
        /\ ret.res.ok
        /\ ret.res.v \in (0 - 20)..20
        /\ (chart.clamp_to_100 /\ args.denom.k = "fin" /\ args.denom.n > 0
                /\ args.value = args.denom) => ret.res.v = 20
        /\ (chart.clamp_to_100 /\ args.denom.k = "fin" /\ args.denom.n > 0
                /\ args.value = Fin(0 - args.denom.n)) => ret.res.v = 0 - 20

(* every ESC [ of the text is followed by a terminating m *)
EscapesComplete(s) ==
    \A i \in 1..Len(s) :
        (s[i] = ESC /\ i + 1 <= Len(s) /\ s[i + 1] = "[")
            => \E j \in (i + 2)..Len(s) : s[j] = "m"

(* C8: truncate_visible never emits a partial escape sequence, emits at    *)
(* most max_cols visible characters, copies a prefix of the text in which  *)
(* escape sequences use none of the column budget, returns the empty       *)
(* string for max_cols <= 0, and for a text whose sequences are all        *)
(* complete the result has min(max_cols, visible length of the text)       *)
(* visible characters.                                                     *)
C8_TruncateEscapeSafe ==
    ret.kind = "truncated" =>
        /\ EscapesComplete(ret.out)
        /\ ret.out = SubSeq(args.s, 1, Len(ret.out))
        /\ args.max_cols <= 0 => ret.out = <<>>
        /\ args.max_cols > 0 => _visible_len(ret.out) <= args.max_cols
        /\ (args.max_cols >= 0 /\ EscapesComplete(args.s))
               => _visible_len(ret.out) = Min(args.max_cols, _visible_len(args.s))

(* a text whose escape sequence is copied whole and whose visible text is  *)
(* cut at the column budget                                                *)
C8_Witness ==
    /\ ret.kind = "truncated"
    /\ args.s = <<ESC, "[", "m", "a", "a">>
    /\ args.max_cols = 1
    /\ ret.out = <<ESC, "[", "m", "a">>

(* the chart is as constructed: no styling has been set *)
Unstyled ==
    /\ ~chart._border_enabled
    /\ chart._border_sgr = None
    /\ chart._label_sgr = None
    /\ chart._axis_sgr = None
    /\ chart._bar_sgr = None
    /\ chart._value_color_cb = None

(* the last call rendered [100, -100] with the default configuration at    *)
(* width 80                                                                *)
C2_Scenario ==
    /\ ret.kind = "render"
    /\ chart.values = ListOf(<<100, 0 - 100>>)
    /\ chart.width = Some(80)
    /\ chart.title = None
    /\ chart.max_value = None
    /\ chart.y_label_fmt = None
    /\ chart.clamp_to_100 /\ chart.unicode /\ chart.show_y_axis
    /\ Unstyled

(* the lines of the output that are negative rows *)
NegLines(r) == {k \in DOMAIN r.content : r.content[k].kind = "neg"}

(* C2 as stated: row 10 shows LEFT HALF BLOCK, the bottom region has one   *)
(* negative row, and the topmost negative row shows RIGHT HALF BLOCK.      *)
C2_OneNegativeRow ==
    C2_Scenario =>
        /\ ret.text[1] = <<" ", "1", "0", "0", "%", " ", "U+258C">>
        /\ Cardinality(NegLines(ret)) = 1
        /\ ret.text[12] = <<" ", "-", "1", "0", "%", " ", "U+2590">>

(* C2 amended: row 10 shows LEFT HALF BLOCK, the bottom region has ten     *)
(* negative rows (-10% .. -100%), and every one of them, the topmost       *)
(* included, shows RIGHT HALF BLOCK.                                       *)
C2_TenNegativeRows ==
    C2_Scenario =>
        /\ Len(ret.text) = 21
        /\ ret.text[1] = <<" ", "1", "0", "0", "%", " ", "U+258C">>
        /\ \A k \in 1..10 : ret.text[k][7] = "U+258C"
        /\ NegLines(ret) = 12..21
        /\ ret.text[12] = <<" ", "-", "1", "0", "%", " ", "U+2590">>
        /\ \A k \in 12..21 : Len(ret.text[k]) = 7 /\ ret.text[k][7] = "U+2590"
        /\ ret.text[21] = <<"-", "1", "0", "0", "%", " ", "U+2590">>

C2_Witness == C2_Scenario /\ ret.neg_rows = 10 /\ Len(ret.text) = 21

(* the last call rendered a non-empty chart *)
Rendered == ret.kind = "render" /\ ~ret.nodata

(* the values the last render read: a list is read again by every render *)
InputValues == chart.values.items

(* C3 as stated: a supplied max_value <= 0 counts as not supplied, so the  *)
(* denominator is the largest absolute input value (1.0 if that is <= 0);  *)
(* a positive max_value is the denominator.                                *)
C3_NonPositiveMaxFallsThrough ==
    (Rendered /\ ~chart.max_value.isNone) =>
        IF chart.max_value.v > 0 THEN ret.denom = chart.max_value.v
        ELSE ret.denom = (IF MaxAbs(InputValues) <= 0 THEN 1 ELSE MaxAbs(InputValues))

(* C3 amended: a supplied max_value <= 0 makes the denominator 1.0         *)
(* whatever the inputs are; only when max_value is not supplied is the     *)
(* denominator the largest absolute input value (1.0 if that is <= 0); a   *)
(* positive max_value is the denominator.  The labels stay forced-scale    *)
(* labels of that denominator.                                             *)
C3_NonPositiveMaxIsOne ==
    Rendered =>
        /\ ret.denom =
             (IF chart.max_value.isNone
              THEN (IF MaxAbs(InputValues) <= 0 THEN 1 ELSE MaxAbs(InputValues))
              ELSE IF chart.max_value.v > 0 THEN chart.max_value.v ELSE 1)
        /\ (~chart.max_value.isNone /\ chart.y_label_fmt.isNone)
              => ret.text[1][1] = "+" /\ SubSeq(ret.text[1], 2, ret.y_w - 1) = Digits(ret.denom)

C3_Witness ==
    /\ Rendered
    /\ chart.max_value = Some(0 - 5)
    /\ MaxAbs(InputValues) = 100
    /\ ret.denom = 1

(* ceil(m / 2) *)
CeilHalf(m) == IF m % 2 = 0 THEN m \div 2 ELSE (m + 1) \div 2

(* the steps of all input values, an odd count padded with 0 *)
InputSteps ==
    {_to_signed_steps_5pct(chart.clamp_to_100, Fin(InputValues[k]), Fin(ret.denom)).v :
        k \in DOMAIN InputValues} \cup (IF Len(InputValues) % 2 = 1 THEN {0} ELSE {})

(* the largest magnitude of a negative input step, 0 if there is none *)
MaxNegMagnitude ==
    LET mags == {0} \cup {0 - st : st \in {x \in InputSteps : x < 0}}
    IN  CHOOSE m \in mags : \A x \in mags : x <= m

(* C4: the number of negative rows rendered is ceil(M / 2), M the largest  *)
(* magnitude of a negative step of the input values, and 0 if no value has *)
(* a negative step; a minimum step of -17 gives 9 rows.                    *)
C4_NegativeRowCount ==
    Rendered =>
        /\ Cardinality(NegLines(ret)) = CeilHalf(MaxNegMagnitude)
        /\ Len(ret.text) = 11 + CeilHalf(MaxNegMagnitude)
        /\ (\A st \in InputSteps : st >= 0) => Cardinality(NegLines(ret)) = 0
        /\ MaxNegMagnitude = 17 => Cardinality(NegLines(ret)) = 9

(* a render whose minimum step is -17, of a value in a column that is not  *)
(* displayed                                                               *)
C4_Witness ==
    /\ Rendered
    /\ MaxNegMagnitude = 17
    /\ Cardinality(NegLines(ret)) = 9
    /\ Len(InputValues) = 3
    /\ InputValues[3] = 0 - 83
    /\ ret.max_cols = 1

(* the lines of the output that are positive or negative rows *)
BarLines(r) == {k \in DOMAIN r.content : r.content[k].kind \in {"pos", "neg"}}

(* the bar glyphs the output line k shows: what is left of the line after  *)
(* the y_w columns of its label                                            *)
VisibleGlyphs(r, k) == Max(0, _visible_len(r.content[k].line) - r.y_w)

(* C5: with a callback set, a render calls it exactly once per visible bar *)
(* glyph of the output, and for no glyph that the output does not show,    *)
(* with the glyph, values, row_kind and row of the cell; the cell is       *)
(* styled with the result and never with the default bar SGR.  Violated:   *)
(* when the label column is as wide as the chart the single column is      *)
(* styled and then cut off by the truncation of the row.                   *)
C5_CallbackOncePerVisibleGlyph ==
    (Rendered /\ ~chart._value_color_cb.isNone) =>
        \A k \in DOMAIN ret.content :
            LET ln == ret.content[k] IN
            IF k \in BarLines(ret)
            THEN /\ \A j \in DOMAIN ln.cells :
                       LET cell == ln.cells[j] IN
                       /\ cell.call.called
                       /\ cell.call.ctx.glyph = cell.glyph
                       /\ cell.call.ctx.row_kind = ln.kind
                       /\ cell.call.ctx.row = ln.row
                       /\ chart.values.kind = "list" =>
                              /\ cell.call.ctx.value_left = InputValues[2 * j - 1]
                              /\ cell.call.ctx.value_right =
                                     (IF 2 * j <= Len(InputValues) THEN InputValues[2 * j] ELSE 0)
                       /\ cell.text = _sgr_wrap(cell.call.sgr, <<cell.glyph>>)
                 /\ Len(ln.cells) = VisibleGlyphs(ret, k)
            ELSE ln.cells = <<>>

(* C6: with the border enabled every line of a non-empty render has the    *)
(* same visible length, whatever the title and the SGR strings of labels,  *)
(* axis, bars, border and callback are.                                    *)
C6_BorderRectangular ==
    (Rendered /\ chart._border_enabled) =>
        LET content_w == SeqMax([k \in DOMAIN ret.content |->
                                    _visible_len(ret.content[k].line)])
        IN  /\ Len(ret.text) = Len(ret.content) + 2
            /\ \A k \in DOMAIN ret.text : _visible_len(ret.text[k]) = content_w + 4

(* a framed render whose lines carry different amounts of styling: a       *)
(* title with escape sequences, styled labels and border, and cells        *)
(* coloured by a callback that leaves blank cells unstyled                 *)
C6_Witness ==
    /\ Rendered
    /\ chart._border_enabled
    /\ chart._border_sgr # None
    /\ chart._label_sgr # None
    /\ chart._value_color_cb = Some("by_glyph")
    /\ Truthy(chart.title)
    /\ \E k \in DOMAIN chart.title.v : chart.title.v[k] = ESC
    /\ \E i \in DOMAIN ret.content, j \in DOMAIN ret.content :
          /\ Len(ret.content[i].line) > Len(ret.content[j].line)
          /\ _visible_len(ret.content[i].line) < _visible_len(ret.content[j].line)

(* C7: rendering twice with no setter call in between returns the same     *)
(* text.  Violated: values may be any Iterable, and an iterator is         *)
(* exhausted by the first render.                                          *)
C7_RenderTwiceIdentical ==
    (ret.kind = "render" /\ prev.kind = "render") => ret.text = prev.text

(* the glyph tables of the design, rows by left band, columns by right band *)
DesignPosGlyphs ==
    << <<" ", "U+2597", "U+2590">>,
       <<"U+2596", "U+2584", "U+259F">>,
       <<"U+258C", "U+2599", "U+2588">> >>

DesignNegGlyphs ==
    << <<" ", "U+259D", "U+2590">>,
       <<"U+2598", "U+2580", "U+259C">>,
       <<"U+258C", "U+259B", "U+2588">> >>

(* C9: in every rendered row both bands of a cell are in {0,1,2}, the      *)
(* glyph lookup is defined, and the glyph shown is the entry of the        *)
(* bottom-filled table on positive rows and of the top-filled table on     *)
(* negative rows; with unicode off it is '#', 'L', 'R' or ' ' according    *)
(* to which bands are > 0.                                                 *)
C9_GlyphOfBands ==
    Rendered =>
        \A k \in BarLines(ret) :
            LET ln == ret.content[k] IN
            \A j \in DOMAIN ln.cells :
                LET cell == ln.cells[j]
                    l == cell.l_in_row
                    r == cell.r_in_row
                IN  /\ l \in 0..2
                    /\ r \in 0..2
                    /\ cell.glyph # "KeyError"
                    /\ chart.unicode =>
                          cell.glyph = (IF ln.kind = "pos" THEN DesignPosGlyphs[l + 1][r + 1]
                                        ELSE DesignNegGlyphs[l + 1][r + 1])
                    /\ ~chart.unicode =>
                          cell.glyph = (IF l > 0 /\ r > 0 THEN "#"
                                        ELSE IF l > 0 THEN "L"
                                        ELSE IF r > 0 THEN "R" ELSE " ")
                    /\ (Unstyled /\ ret.y_w + j <= ret.cols) => ln.line[ret.y_w + j] = cell.glyph

(* a negative row showing UPPER LEFT AND UPPER RIGHT AND LOWER RIGHT: left *)
(* band 1, right band 2                                                    *)
C9_Witness ==
    /\ Rendered
    /\ chart.unicode
    /\ \E k \in BarLines(ret) :
          /\ ret.content[k].kind = "neg"
          /\ ret.content[k].cells[1].l_in_row = 1
          /\ ret.content[k].cells[1].r_in_row = 2
          /\ ret.content[k].line[ret.y_w + 1] = "U+259C"

(* the line kinds and row numbers the design prescribes for a render with  *)
(* n negative rows                                                         *)
DesignKinds(n) ==
    (IF Truthy(chart.title)
     THEN <<"title">> \o (IF chart.show_rule THEN <<"rule">> ELSE <<>>)
     ELSE <<>>)
    \o [k \in 1..10 |-> "pos"]
    \o (IF n > 0 THEN <<"zero">> \o [k \in 1..n |-> "neg"] ELSE <<"baseline">>)

DesignRows(n) ==
    (IF Truthy(chart.title)
     THEN <<0>> \o (IF chart.show_rule THEN <<0>> ELSE <<>>)
     ELSE <<>>)
    \o [k \in 1..10 |-> 11 - k]
    \o (IF n > 0 THEN <<0>> \o [k \in 1..n |-> k] ELSE <<0>>)

(* the visible characters of a line *)
VisibleText(s) == VisLoop(s, 1, <<>>)

IsPrefix(p, s) == Len(p) <= Len(s) /\ p = SubSeq(s, 1, Len(p))

(* C10: the lines of a non-empty render are, in order and with nothing     *)
(* else, the title line (only with a title) and the rule line (only with   *)
(* a title and show_rule), the ten positive rows 10..1, then the zero-axis *)
(* line and the negative rows 1..N when N > 0 or the plain baseline when   *)
(* N = 0; the border, when enabled, is applied once around these lines.    *)
C10_LineOrder ==
    Rendered =>
        LET n == ret.neg_rows
            lines == [k \in DOMAIN ret.content |-> ret.content[k].line]
            left_v == _sgr_wrap(chart._border_sgr, <<_border_chars(chart).v>>)
        IN  /\ [k \in DOMAIN ret.content |-> ret.content[k].kind] = DesignKinds(n)
            /\ [k \in DOMAIN ret.content |-> ret.content[k].row] = DesignRows(n)
            /\ \A k \in DOMAIN ret.content :
                  LET ln == ret.content[k]
                      vis == VisibleText(ln.line)
                  IN  /\ ln.kind = "title" => vis # <<>> /\ IsPrefix(vis, VisibleText(chart.title.v))
                      /\ ln.kind = "rule" => vis # <<>> /\ \A i \in DOMAIN vis : vis[i] = RuleChar(chart)
                      /\ (ln.kind \in {"pos", "neg", "zero"} /\ chart.show_y_axis
                              /\ chart.max_value.isNone /\ chart.y_label_fmt.isNone)
                            => IsPrefix(rjust(FormatInt((IF ln.kind = "neg" THEN 0 - 10 ELSE 10) * ln.row,
                                                        FALSE, 3) \o <<"%", " ">>, ret.y_w), vis)
                      /\ ln.kind = "baseline" =>
                            \A i \in DOMAIN vis :
                                vis[i] = (IF i <= ret.y_w THEN " " ELSE RuleChar(chart))
            /\ ~chart._border_enabled => ret.text = lines
            /\ chart._border_enabled =>
                  /\ Len(ret.text) = Len(lines) + 2
                  /\ VisibleText(ret.text[1])[1] = _border_chars(chart).tl
                  /\ VisibleText(ret.text[Len(ret.text)])[1] = _border_chars(chart).bl
                  /\ \A k \in DOMAIN lines :
                        SubSeq(ret.text[k + 1], 1, Len(left_v) + 1 + Len(lines[k]))
                            = left_v \o <<" ">> \o lines[k]

(* a framed render with title, rule, zero axis and negative rows *)
C10_Witness ==
    /\ Rendered
    /\ Truthy(chart.title)
    /\ chart.show_rule
    /\ chart._border_enabled
    /\ ret.neg_rows = 10
    /\ Len(ret.text) = 25

(* the step the same call returns under the other setting of the flag *)
StepWithFlag(clamp_to_100) ==
    _to_signed_steps_5pct(clamp_to_100, args.value, args.denom)

(* C11: the clamp flag has no effect on the result: for every value and    *)
(* every positive denominator the step computed with clamp_to_100 off      *)
(* equals the step computed with clamp_to_100 on.  Violated: with the flag *)
(* off an infinite or nan percentage raises, with the flag on it is        *)
(* clamped to +/-100 and gives a step.                                     *)
C11_ClampFlagNoEffect ==
    (ret.kind = "steps" /\ FLt(Fin(0), args.denom)) =>
        ret.res = StepWithFlag(~chart.clamp_to_100)

(* the step the render computed for one side of column j *)
SideStep(j, side) ==
    IF side = "l" THEN ret.left_steps_total[j] ELSE ret.right_steps_total[j]

(* the band of one side of column j on the row `row` of the given kind *)
BandAt(kind, row, j, side) ==
    LET k == CHOOSE x \in BarLines(ret) :
                 ret.content[x].kind = kind /\ ret.content[x].row = row
        cell == ret.content[k].cells[j]
    IN  IF side = "l" THEN cell.l_in_row ELSE cell.r_in_row

RECURSIVE SumBands(_, _, _, _)
(* the sum of that side's bands over rows 1..n of the given kind *)
SumBands(kind, n, j, side) ==
    IF n = 0 THEN 0 ELSE SumBands(kind, n - 1, j, side) + BandAt(kind, n, j, side)

(* rows 1..n are filled from the zero line outward, without a gap *)
Contiguous(kind, n, j, side) ==
    \A row \in 1..n :
        BandAt(kind, row, j, side) > 0
            => \A q \in 1..(row - 1) : BandAt(kind, q, j, side) = 2

(* the columns that have a cell in the rendered rows *)
DisplayedColumns ==
    DOMAIN ret.content[CHOOSE x \in BarLines(ret) : TRUE].cells

(* C12: the drawn bar height equals the quantized value: for every         *)
(* displayed column and each side with step s, the bands of that side sum  *)
(* to max(s, 0) over the ten positive rows and to max(-s, 0) over the N    *)
(* rendered negative rows, and the filled bands are contiguous from the    *)
(* zero line outward.                                                      *)
C12_BarHeightIsStep ==
    Rendered =>
        /\ \A row \in 1..10 :
              \E x \in BarLines(ret) :
                  ret.content[x].kind = "pos" /\ ret.content[x].row = row
        /\ \A row \in 1..Cardinality(NegLines(ret)) :
              \E x \in BarLines(ret) :
                  ret.content[x].kind = "neg" /\ ret.content[x].row = row
        /\ \A j \in DisplayedColumns, side \in {"l", "r"} :
              LET s == SideStep(j, side)
                  N == Cardinality(NegLines(ret))
              IN  /\ SumBands("pos", 10, j, side) = Max(s, 0)
                  /\ SumBands("neg", N, j, side) = Max(0 - s, 0)
                  /\ Contiguous("pos", 10, j, side)
                  /\ Contiguous("neg", N, j, side)

(* a column with step 7 on the left (three full rows and a half row up)    *)
(* and step -13 on the right (six full rows and a half row down)           *)
C12_Witness ==
    /\ Rendered
    /\ InputValues = <<7, 0 - 13>>
    /\ ret.denom = 20
    /\ SideStep(1, "l") = 7
    /\ SideStep(1, "r") = 0 - 13
    /\ Cardinality(NegLines(ret)) = 7
    /\ BandAt("pos", 4, 1, "l") = 1
    /\ BandAt("pos", 5, 1, "l") = 0
    /\ BandAt("neg", 7, 1, "r") = 1
    /\ SumBands("neg", 7, 1, "l") = 0

====
